---- MODULE Spec2Model ----
(***************************************************************************)
(* Model of the Graphix <-> MentPy format adapter                          *)
(*   src/graphix_mentpy_interface/mentpy_interface.py  (current adapter)   *)
(*   src/mentpy_interface.py                           (legacy adapter)    *)
(*                                                                         *)
(* Every adapter function is a pure function of its argument; it is        *)
(* modelled as an operator that returns an outcome record, and one action  *)
(* per function applies it to an input drawn in Init.                      *)
(*                                                                         *)
(* Python values are records [ty, v]: ty is the Python type, v the         *)
(* numeric value (angles in units of pi/4).  None is [ty |-> "NoneType"],  *)
(* a symbolic graphix angle is [ty |-> "Expression"].                      *)
(***************************************************************************)
EXTENDS Integers, Sequences, FiniteSets, TLC

VARIABLES pc, pattern, mbqc, generators, out

vars == <<pc, pattern, mbqc, generators, out>>

(***************************************************************************)
(* Bounds of the model.                                                    *)
(***************************************************************************)
MaxNodes == 2
MaxGens == 2
MaxChars == 3

(***************************************************************************)
(* Python values.                                                          *)
(***************************************************************************)
NoValue == [ty |-> "absent", v |-> 0]
PyNone == [ty |-> "NoneType", v |-> 0]
PyFloat(x) == [ty |-> "float", v |-> x]
PyInt(x) == [ty |-> "int", v |-> x]
PyBool(b) == [ty |-> "bool", v |-> IF b THEN 1 ELSE 0]
PyExpression == [ty |-> "Expression", v |-> 0]

\* isinstance(x, cls); bool is a subclass of int, nothing is a subclass of float
isinstance(x, classes) ==
    \/ x.ty \in classes
    \/ x.ty = "bool" /\ "int" \in classes

\* float(x): defined for int, bool and float; an Expression has no __float__
CanFloat(x) == x.ty \in {"float", "int", "bool"}
float(x) == PyFloat(x.v)

\* x == y on numbers compares values, not types (False == 0 == 0.0)
PyEq(x, y) == x.ty # "NoneType" /\ y.ty # "NoneType" /\ x.v = y.v

(***************************************************************************)
(* graphix.fundamentals.Plane and its string form.                         *)
(***************************************************************************)
Plane == {"Plane.XY", "Plane.YZ", "Plane.XZ"}

\* str(plane).split(".")[1]
PlaneStr(plane) ==
    CASE plane = "Plane.XY" -> "XY"
      [] plane = "Plane.YZ" -> "YZ"
      [] plane = "Plane.XZ" -> "XZ"

(***************************************************************************)
(* Graphs over nodes 0..n-1; an edge is a two-element set.                 *)
(***************************************************************************)
Nodes(n) == 0 .. (n - 1)
AllEdges(n) == {{a, b} : a, b \in Nodes(n)} \ {{a} : a \in Nodes(n)}

RECURSIVE SeqsOver(_, _)
\* all sequences without repetition over the set S, of length k
SeqsOver(S, k) ==
    IF k = 0 THEN {<<>>}
    ELSE UNION {{<<x>> \o s : s \in SeqsOver(S \ {x}, k - 1)} : x \in S}

Range(s) == {s[i] : i \in DOMAIN s}

(***************************************************************************)
(* A graphix Pattern, reduced to what the adapter reads from it:           *)
(* get_graph(), input_nodes, output_nodes and the M commands in order      *)
(* (get_meas_plane() and get_angles() are dicts in command order).         *)
(***************************************************************************)
PatternAngles == {PyFloat(0), PyFloat(1), PyExpression}

\* the M commands measuring the nodes of order, in that order
MSeq(order, pa) ==
    [i \in 1 .. Len(order) |->
        [node |-> order[i], plane |-> pa[order[i]][1], angle |-> pa[order[i]][2]]]

\* p is a pattern within the bounds: every non-output node is measured exactly once
IsPattern(p) ==
    \E n \in 1 .. MaxNodes :
    \E outs \in SUBSET Nodes(n) :
           \E es \in SUBSET AllEdges(n), ins \in SUBSET Nodes(n) :
           \E order \in SeqsOver(Nodes(n) \ outs, Cardinality(Nodes(n) \ outs)) :
           \E pa \in [Nodes(n) \ outs -> Plane \X PatternAngles] :
              p = [n |-> n, edges |-> es, input_nodes |-> ins, output_nodes |-> outs,
                   meas |-> MSeq(order, pa)]

\* Pattern.get_meas_plane().items(): (node, plane) pairs in command order
get_meas_plane(p) == [i \in DOMAIN p.meas |-> <<p.meas[i].node, p.meas[i].plane>>]

\* Pattern.get_meas_plane() as a mapping
meas_plane_map(p) ==
    [v \in {p.meas[i].node : i \in DOMAIN p.meas} |->
        (CHOOSE c \in Range(p.meas) : c.node = v).plane]

\* Pattern.get_angles(): dict node -> angle
get_angles(p) ==
    [v \in {p.meas[i].node : i \in DOMAIN p.meas} |->
        (CHOOSE c \in Range(p.meas) : c.node = v).angle]

(***************************************************************************)
(* graphix.gflow.find_flow / find_gflow, as called by the adapter.  Both   *)
(* return a pair whose first component, the only one the adapter reads,    *)
(* is None or the correction map (a dict keyed by the measured nodes).     *)
(***************************************************************************)
Neighbours(v, edges) == {u \in UNION edges : {u, v} \in edges}

\* the nodes with an odd number of neighbours in S
Odd(S, nodes, edges) ==
    {v \in nodes : Cardinality(Neighbours(v, edges) \cap S) % 2 = 1}

RECURSIVE flowaux(_, _, _, _, _, _)
flowaux(nodes, edges, iset, oset, v_c, f) ==
    LET hits == {q \in v_c : Cardinality(Neighbours(q, edges) \cap (nodes \ oset)) = 1}
        v_out_prime == UNION {Neighbours(q, edges) \cap (nodes \ oset) : q \in hits}
        f2 == [p \in DOMAIN f \cup v_out_prime |->
                 IF p \in v_out_prime
                 THEN {CHOOSE q \in hits : Neighbours(q, edges) \cap (nodes \ oset) = {p}}
                 ELSE f[p]]
    IN IF v_out_prime = {}
       THEN IF oset = nodes THEN [ty |-> "dict", v |-> f] ELSE PyNone
       ELSE flowaux(nodes, edges, iset, oset \cup v_out_prime,
                    (v_c \ hits) \cup (v_out_prime \cap (nodes \ iset)), f2)

\* find_flow(g, iset, oset, meas_planes)[0]
find_flow(nodes, edges, iset, oset, meas_planes) ==
    IF \E v \in DOMAIN meas_planes : meas_planes[v] # "Plane.XY"
    THEN PyNone
    ELSE flowaux(nodes, edges, iset, oset, oset \ iset, <<>>)

\* the correction sets S (within cand) that correct node under its plane: the
\* solutions of the linear system over GF(2) whose columns are the candidates; with
\* no candidate the solver has no column and reports no solution
GflowSolutions(node, cand, non_output, nodes, edges, plane) ==
    {S \in (IF cand = {} THEN {} ELSE SUBSET cand) :
        CASE plane = "Plane.XY" -> Odd(S, nodes, edges) \cap non_output = {node}
          [] plane = "Plane.XZ" -> Odd(S \cup {node}, nodes, edges) \cap non_output = {node}
          [] plane = "Plane.YZ" -> Odd(S \cup {node}, nodes, edges) \cap non_output = {}}

RECURSIVE gflowaux(_, _, _, _, _, _)
gflowaux(nodes, edges, iset, oset, meas_planes, g) ==
    IF oset = nodes THEN [ty |-> "dict", v |-> g]
    ELSE
    LET non_output == nodes \ oset
        cand == oset \ iset
        corrected == {u \in non_output :
                        GflowSolutions(u, cand, non_output, nodes, edges, meas_planes[u]) # {}}
        g2 == [u \in DOMAIN g \cup corrected |->
                 IF u \in corrected
                 THEN LET S == CHOOSE S \in GflowSolutions(u, cand, non_output, nodes, edges,
                                                           meas_planes[u]) : TRUE
                      IN IF meas_planes[u] = "Plane.XY" THEN S ELSE S \cup {u}
                 ELSE g[u]]
    IN IF corrected = {} THEN PyNone
       ELSE gflowaux(nodes, edges, iset, oset \cup corrected, meas_planes, g2)

\* find_gflow(g, iset, oset, meas_planes)[0]
find_gflow(nodes, edges, iset, oset, meas_planes) ==
    gflowaux(nodes, edges, iset, oset, meas_planes, <<>>)

\* bool(x) for None and dict: None and the empty dict are falsy
Truthy(x) == x.ty = "dict" /\ DOMAIN x.v # {}

(***************************************************************************)
(* mentpy.Ment and mentpy.MBQCircuit                                       *)
(***************************************************************************)
\* mp.Ment(angle, plane)
Ment(angle, plane) == [ty |-> "Ment", angle |-> angle, plane |-> plane]

\* MBQCircuit.trainable_nodes: the measured nodes whose angle is None
TrainableNodes(nodes, measurements) ==
    {v \in nodes : v \in DOMAIN measurements /\ measurements[v].angle = PyNone}

\* mp.MBQCircuit(graph, input_nodes, output_nodes, measurements): a node without a
\* descriptor is stored with measurement None
MBQCircuit(n, edges, vin, vout, measurements) ==
    [n |-> n, edges |-> edges, input_nodes |-> vin, output_nodes |-> vout,
     measurements |-> [v \in Nodes(n) |->
                         IF v \in DOMAIN measurements THEN measurements[v] ELSE PyNone],
     trainable_nodes |-> [ty |-> "list", v |-> TrainableNodes(Nodes(n), measurements)]]

(***************************************************************************)
(* graphix_pattern_to_mentpy                                               *)
(***************************************************************************)
\* the outcome of a call: a returned value or a raised exception, with the number
\* of measurement descriptors built and the later stages the call reached
Returned(op, value, built, did) ==
    [op |-> op, kind |-> "return", err |-> "", msg |-> "", value |-> value,
     built |-> built, did |-> did]
Raised(op, err, msg, built, did) ==
    [op |-> op, kind |-> "raise", err |-> err, msg |-> msg, value |-> NoValue,
     built |-> built, did |-> did]

\* line 57: any(isinstance(angle, Expression) for angle in meas_angles);
\* iterating the dict meas_angles yields its keys, the node numbers
AnyExpression(meas_angles) ==
    \E angle \in DOMAIN meas_angles : isinstance(PyInt(angle), {"Expression"})

\* line 64-65: angle := (float(a) == 0.0 and plane_str == "XY"); the walrus binds
\* the whole boolean expression; a true value is then replaced by None
DescriptorAngle(a, plane_str) ==
    LET angle == PyBool(PyEq(float(a), PyFloat(0)) /\ plane_str = "XY")
    IN IF angle.v = 1 THEN PyNone ELSE angle

RECURSIVE BuildMeasurements(_, _, _, _, _)
\* lines 60-66: the loop over meas_planes from position i on; measurements is the
\* dict built so far.  float() of an Expression raises TypeError.
BuildMeasurements(meas_planes, meas_angles, vout, i, measurements) ==
    IF i > Len(meas_planes) THEN [err |-> "", measurements |-> measurements]
    ELSE LET node == meas_planes[i][1]
             plane_str == PlaneStr(meas_planes[i][2])
         IN IF node \in vout
            THEN BuildMeasurements(meas_planes, meas_angles, vout, i + 1, measurements)
            ELSE IF ~CanFloat(meas_angles[node])
            THEN [err |-> "TypeError", measurements |-> measurements]
            ELSE BuildMeasurements(meas_planes, meas_angles, vout, i + 1,
                    [v \in DOMAIN measurements \cup {node} |->
                        IF v = node
                        THEN Ment(DescriptorAngle(meas_angles[node], plane_str), plane_str)
                        ELSE measurements[v]])

\* a slip of precedence: if not flow and g_flow
NoFlowFound_precedence(flow, g_flow) == ~Truthy(flow) /\ Truthy(g_flow)

\* line 69: if not (flow or g_flow)
NoFlowFound(flow, g_flow) == ~(Truthy(flow) \/ Truthy(g_flow))

graphix_pattern_to_mentpy(p) ==
    LET op == "graphix_pattern_to_mentpy"
        nodes == Nodes(p.n)
        vin == p.input_nodes
        vout == p.output_nodes
        meas_planes == get_meas_plane(p)
        meas_angles == get_angles(p)
        loop == BuildMeasurements(meas_planes, meas_angles, vout, 1, <<>>)
        built == Cardinality(DOMAIN loop.measurements)
        flow == find_flow(nodes, p.edges, vin, vout, meas_plane_map(p))
        g_flow == find_gflow(nodes, p.edges, vin, vout, meas_plane_map(p))
    IN IF AnyExpression(meas_angles)
       THEN Raised(op, "NotImplementedError", "MentPy doesn't support Expression measurements.",
                   0, {})
       ELSE IF loop.err # "" THEN Raised(op, loop.err, "float()", built, {})
       ELSE IF NoFlowFound(flow, g_flow)
       THEN Raised(op, "ValueError", "No flow or gflow found, cannot convert to MBQCircuit.",
                   built, {"find_flow", "find_gflow"})
       ELSE Returned(op, MBQCircuit(p.n, p.edges, vin, vout, loop.measurements), built,
                     {"find_flow", "find_gflow", "MBQCircuit"})

(***************************************************************************)
(* mentpy_to_graphix_pattern                                               *)
(***************************************************************************)
\* a slip in the alias table: the axis X sent to the plane XY
conversion_dict_alias(label) ==
    CASE label = "XY" -> "Plane.XY"
      [] label = "YZ" -> "Plane.YZ"
      [] label = "XZ" -> "Plane.XZ"
      [] label = "X" -> "Plane.XY"
      [] label = "Y" -> "Plane.YZ"
      [] label = "Z" -> "Plane.XZ"

\* line 93: conversion_dict
ConversionLabels == {"XY", "YZ", "XZ", "X", "Y", "Z"}
conversion_dict(label) ==
    CASE label = "XY" -> "Plane.XY"
      [] label = "YZ" -> "Plane.YZ"
      [] label = "XZ" -> "Plane.XZ"
      [] label = "X" -> "Plane.XZ"
      [] label = "Y" -> "Plane.YZ"
      [] label = "Z" -> "Plane.XZ"

\* graphix.measurements.Measurement(angle, plane)
Measurement(angle, plane) == [ty |-> "Measurement", angle |-> angle, plane |-> plane]

\* line 97: measurement.angle if isinstance(measurement.angle, ExpressionOrFloat) else 0.0
PassAngle(angle) ==
    IF isinstance(angle, {"Expression", "float"}) THEN angle ELSE PyFloat(0)

RECURSIVE ConvertMeasurements(_, _, _, _)
\* lines 95-101: the loop over graph_state.measurements.items(), in node order, from
\* node index on; measurements is the dict built so far
ConvertMeasurements(ms, n, index, measurements) ==
    IF index >= n THEN [err |-> "", measurements |-> measurements]
    ELSE IF ms[index] = PyNone THEN ConvertMeasurements(ms, n, index + 1, measurements)
    ELSE IF ms[index].plane \notin ConversionLabels
    THEN [err |-> "ValueError", measurements |-> measurements]
    ELSE ConvertMeasurements(ms, n, index + 1,
            [v \in DOMAIN measurements \cup {index} |->
                IF v = index
                THEN Measurement(PassAngle(ms[index].angle), conversion_dict(ms[index].plane))
                ELSE measurements[v]])

\* graphix.opengraph.OpenGraph(inside, measurements, inputs, outputs)
OpenGraph(n, edges, measurements, inputs, outputs) ==
    [n |-> n, edges |-> edges, measurements |-> measurements,
     input_nodes |-> inputs, output_nodes |-> outputs]

\* OpenGraph.to_pattern() can generate a pattern: every non-output node carries a
\* measurement and the open graph has a flow or a gflow (the generator tests the
\* witness against None, so the empty witness counts); otherwise it raises ValueError
CanGeneratePattern(og) ==
    LET planes == [v \in DOMAIN og.measurements |-> og.measurements[v].plane]
    IN /\ DOMAIN og.measurements = Nodes(og.n) \ og.output_nodes
       /\ \/ find_flow(Nodes(og.n), og.edges, og.input_nodes, og.output_nodes, planes) # PyNone
          \/ find_gflow(Nodes(og.n), og.edges, og.input_nodes, og.output_nodes, planes) # PyNone

mentpy_to_graphix_pattern(graph_state) ==
    LET op == "mentpy_to_graphix_pattern"
        loop == ConvertMeasurements(graph_state.measurements, graph_state.n, 0, <<>>)
        built == Cardinality(DOMAIN loop.measurements)
        open_graph == OpenGraph(graph_state.n, graph_state.edges, loop.measurements,
                                graph_state.input_nodes, graph_state.output_nodes)
    IN IF loop.err # ""
       THEN Raised(op, loop.err, "Measurement plane not supported.", built, {})
       ELSE IF ~CanGeneratePattern(open_graph)
       THEN Raised(op, "ValueError", "to_pattern()", built, {"OpenGraph"})
       ELSE Returned(op, open_graph, built, {"OpenGraph", "to_pattern", "standardize"})

(***************************************************************************)
(* _mentpy_pauli_to_graphix_pauli and the legacy mentpy_pauli_to_graphix_pauli  *)
(***************************************************************************)
\* the characters of str(generator): the four Pauli letters and one other
Chars == {"I", "X", "Y", "Z", "-"}

\* a copy-and-paste slip in the chain: the branch for "Y" appends Pauli.X
PauliOf_pasted(pauli) ==
    CASE pauli = "X" -> "Pauli.X"
      [] pauli = "Y" -> "Pauli.X"
      [] pauli = "Z" -> "Pauli.Z"
      [] pauli = "I" -> "Pauli.I"
      [] OTHER -> "ValueError"

\* lines 132-142: the if/elif chain on one character
PauliOf(pauli) ==
    CASE pauli = "X" -> "Pauli.X"
      [] pauli = "Y" -> "Pauli.Y"
      [] pauli = "Z" -> "Pauli.Z"
      [] pauli = "I" -> "Pauli.I"
      [] OTHER -> "ValueError"

RECURSIVE DecodeGenerator(_, _, _)
\* lines 131-142: the inner loop from character j on; output_generator is the list so far
DecodeGenerator(generator_as_list, j, output_generator) ==
    IF j > Len(generator_as_list) THEN [err |-> "", value |-> output_generator]
    ELSE IF PauliOf(generator_as_list[j]) = "ValueError"
    THEN [err |-> "ValueError", value |-> output_generator]
    ELSE DecodeGenerator(generator_as_list, j + 1,
                         Append(output_generator, PauliOf(generator_as_list[j])))

RECURSIVE DecodeGenerators(_, _, _)
\* lines 128-143: the outer loop from generator i on
DecodeGenerators(gens, i, output_generator_list) ==
    IF i > Len(gens) THEN [err |-> "", value |-> output_generator_list]
    ELSE LET g == DecodeGenerator(gens[i], 1, <<>>)
         IN IF g.err # "" THEN [err |-> g.err, value |-> output_generator_list]
            ELSE DecodeGenerators(gens, i + 1, Append(output_generator_list, g.value))

PauliOutcome(op, gens, did) ==
    LET r == DecodeGenerators(gens, 1, <<>>)
    IN IF r.err # "" THEN Raised(op, r.err, "The element is not a Pauli", 0, did)
       ELSE Returned(op, [ty |-> "list", v |-> r.value], 0, did)

_mentpy_pauli_to_graphix_pauli(gens) ==
    PauliOutcome("_mentpy_pauli_to_graphix_pauli", gens, {})

\* src/mentpy_interface.py
mentpy_pauli_to_graphix_pauli(gens) ==
    PauliOutcome("mentpy_pauli_to_graphix_pauli", gens, {})

RECURSIVE Strings(_)
\* the character sequences of length k
Strings(k) ==
    IF k = 0 THEN {<<>>} ELSE {Append(s, c) : s \in Strings(k - 1), c \in Chars}

RECURSIVE GeneratorLists(_, _)
\* the lists of at most g generators with at most k characters in all
GeneratorLists(g, k) ==
    {<<>>} \cup
    (IF g = 0 THEN {}
     ELSE UNION {{<<s>> \o rest : s \in Strings(len), rest \in GeneratorLists(g - 1, k - len)}
                 : len \in 0 .. k})

(***************************************************************************)
(* calculate_lie_algebra; lie_algebra is what mp.utils.calculate_lie_algebra    *)
(* returns                                                                 *)
(***************************************************************************)
\* line 167: mp_pattern.trainable_nodes is None
NotTrainable(trainable_nodes) == trainable_nodes = PyNone

calculate_lie_algebra(p, lie_algebra) ==
    LET op == "calculate_lie_algebra"
        mp_pattern == graphix_pattern_to_mentpy(p)
        decoded == PauliOutcome(op, lie_algebra, mp_pattern.did \cup {"mp.utils.calculate_lie_algebra"})
    IN IF mp_pattern.kind = "raise"
       THEN [mp_pattern EXCEPT !.op = op]
       ELSE IF NotTrainable(mp_pattern.value.trainable_nodes)
       THEN Raised(op, "ValueError", "The pattern is not trainable.", mp_pattern.built,
                   mp_pattern.did)
       ELSE [decoded EXCEPT !.built = mp_pattern.built]

\* what mp.utils.calculate_lie_algebra may return for p: any list of generators
\* when the call reaches it, nothing to choose when it does not
ExternalLieAlgebra(p) ==
    IF "mp.utils.calculate_lie_algebra" \in calculate_lie_algebra(p, <<>>).did
    THEN GeneratorLists(MaxGens, MaxChars)
    ELSE {<<>>}

(***************************************************************************)
(* Legacy converter, src/mentpy_interface.py                               *)
(***************************************************************************)
RECURSIVE LegacyMeasurements(_, _, _, _, _)
\* lines 30-34: for i, plane in enumerate(meas_planes): i is the position in the
\* dict, counted from 0, and plane the (node, plane) item at that position
LegacyMeasurements(meas_planes, meas_angles, vout, i, measurements) ==
    IF i >= Len(meas_planes) THEN [err |-> "", measurements |-> measurements]
    ELSE LET plane_str == PlaneStr(meas_planes[i + 1][2])
         IN IF i \in vout
            THEN LegacyMeasurements(meas_planes, meas_angles, vout, i + 1, measurements)
            ELSE IF i \notin DOMAIN meas_angles
            THEN [err |-> "KeyError", measurements |-> measurements]
            ELSE LegacyMeasurements(meas_planes, meas_angles, vout, i + 1,
                    [v \in DOMAIN measurements \cup {i} |->
                        IF v = i THEN Ment(meas_angles[i], plane_str) ELSE measurements[v]])

mentpy_mbqcircuit_from_graphix_pattern(p) ==
    LET op == "mentpy_mbqcircuit_from_graphix_pattern"
        loop == LegacyMeasurements(get_meas_plane(p), get_angles(p), p.output_nodes, 0, <<>>)
        built == Cardinality(DOMAIN loop.measurements)
    IN IF loop.err # "" THEN Raised(op, loop.err, "meas_angles[i]", built, {})
       ELSE Returned(op, MBQCircuit(p.n, p.edges, p.input_nodes, p.output_nodes,
                                    loop.measurements), built, {"MBQCircuit"})

(***************************************************************************)
(* Inputs                                                                  *)
(***************************************************************************)
\* the descriptors of a mentpy circuit: a plane with any angle, an axis with angle 0,
\* and a label the adapter does not know
CircuitAngles == {PyNone, PyFloat(0), PyFloat(1), PyInt(1)}
Descriptors ==
    {Ment(a, l) : a \in CircuitAngles, l \in {"XY", "YZ", "XZ"}}
      \cup {Ment(PyInt(0), l) : l \in {"X", "Y", "Z"}}
      \cup {Ment(PyNone, "YX")}

\* c is a mentpy circuit within the bounds: an output node has measurement None,
\* every other node a descriptor
IsCircuit(c) ==
    \E n \in 1 .. MaxNodes :
    \E outs \in SUBSET Nodes(n) :
    \E es \in SUBSET AllEdges(n), ins \in SUBSET Nodes(n) :
    \E ms \in [Nodes(n) \ outs -> Descriptors] :
        c = MBQCircuit(n, es, ins, outs, ms)

(***************************************************************************)
(* Actions: one per adapter function                                       *)
(***************************************************************************)
GraphixPatternToMentpy ==
    /\ pc = "start"
    /\ pattern # NoValue
    /\ out' = graphix_pattern_to_mentpy(pattern)
    /\ mbqc' = out'.value
    /\ pc' = IF out'.kind = "return" THEN "converted" ELSE "done"
    /\ UNCHANGED <<pattern, generators>>

MentpyToGraphixPattern ==
    /\ pc \in {"start", "converted"}
    /\ mbqc # NoValue
    /\ out' = mentpy_to_graphix_pattern(mbqc)
    /\ pc' = "done"
    /\ UNCHANGED <<pattern, mbqc, generators>>

CalculateLieAlgebra ==
    /\ pc = "start"
    /\ pattern # NoValue
    /\ \E lie_algebra \in ExternalLieAlgebra(pattern) :
          out' = calculate_lie_algebra(pattern, lie_algebra)
    /\ pc' = "done"
    /\ UNCHANGED <<pattern, mbqc, generators>>

MentpyPauliToGraphixPauli ==
    /\ pc = "start"
    /\ generators # NoValue
    /\ out' = _mentpy_pauli_to_graphix_pauli(generators.v)
    /\ pc' = "done"
    /\ UNCHANGED <<pattern, mbqc, generators>>

LegacyMentpyPauliToGraphixPauli ==
    /\ pc = "start"
    /\ generators # NoValue
    /\ out' = mentpy_pauli_to_graphix_pauli(generators.v)
    /\ pc' = "done"
    /\ UNCHANGED <<pattern, mbqc, generators>>

MentpyMbqcircuitFromGraphixPattern ==
    /\ pc = "start"
    /\ pattern # NoValue
    /\ out' = mentpy_mbqcircuit_from_graphix_pattern(pattern)
    /\ pc' = "done"
    /\ UNCHANGED <<pattern, mbqc, generators>>

(***************************************************************************)
(* Specifications                                                          *)
(***************************************************************************)
InitPattern ==
    /\ pc = "start"
    /\ IsPattern(pattern)
    /\ mbqc = NoValue
    /\ generators = NoValue
    /\ out = NoValue

InitCircuit ==
    /\ pc = "start"
    /\ pattern = NoValue
    /\ IsCircuit(mbqc)
    /\ generators = NoValue
    /\ out = NoValue

InitGenerators ==
    /\ pc = "start"
    /\ pattern = NoValue
    /\ mbqc = NoValue
    /\ \E gens \in GeneratorLists(MaxGens, MaxChars) : generators = [ty |-> "list", v |-> gens]
    /\ out = NoValue

\* pattern -> circuit, and back
NextConv == GraphixPatternToMentpy \/ MentpyToGraphixPattern
SpecConv == InitPattern /\ [][NextConv]_vars

\* circuit -> pattern
NextBack == MentpyToGraphixPattern
SpecBack == InitCircuit /\ [][NextBack]_vars

\* the Pauli decoders
NextPauli == MentpyPauliToGraphixPauli \/ LegacyMentpyPauliToGraphixPauli
SpecPauli == InitGenerators /\ [][NextPauli]_vars

\* the Lie-algebra deriver
NextLie == CalculateLieAlgebra
SpecLie == InitPattern /\ [][NextLie]_vars

\* the legacy converter
NextLegacy == MentpyMbqcircuitFromGraphixPattern
SpecLegacy == InitPattern /\ [][NextLegacy]_vars

\* every function on every input
Init == InitPattern \/ InitCircuit \/ InitGenerators
Next == NextConv \/ NextPauli \/ NextLie \/ NextLegacy
Spec == Init /\ [][Next]_vars

(***************************************************************************)
(* Properties                                                              *)
(***************************************************************************)
\* the call of op has ended, and out is its outcome
Ended(op) == pc # "start" /\ out.op = op

MeasuredNodes(p) == {p.meas[i].node : i \in DOMAIN p.meas}
ConcreteAngles(p) == \A i \in DOMAIN p.meas : p.meas[i].angle.ty # "Expression"
SymbolicAngle(p) == \E i \in DOMAIN p.meas : p.meas[i].angle.ty = "Expression"

FlowOf(p) == find_flow(Nodes(p.n), p.edges, p.input_nodes, p.output_nodes, meas_plane_map(p))
GflowOf(p) == find_gflow(Nodes(p.n), p.edges, p.input_nodes, p.output_nodes, meas_plane_map(p))
HasFlowOrGflow(p) == FlowOf(p) # PyNone \/ GflowOf(p) # PyNone

NoFlowMsg == "No flow or gflow found, cannot convert to MBQCircuit."

\* og carries the graph, the inputs, the outputs and, node by node, the planes and
\* angles of the pattern p
SameOpenGraph(p, og) ==
    /\ og.n = p.n
    /\ og.edges = p.edges
    /\ og.input_nodes = p.input_nodes
    /\ og.output_nodes = p.output_nodes
    /\ DOMAIN og.measurements = MeasuredNodes(p)
    /\ \A v \in MeasuredNodes(p) :
          /\ og.measurements[v].plane = meas_plane_map(p)[v]
          /\ PyEq(og.measurements[v].angle, get_angles(p)[v])

\* C1: a pattern with concrete angles and a flow or gflow, converted to a circuit and
\* back, comes back as a pattern of the same open graph: same graph, inputs, outputs,
\* and the same plane and angle on every measured node.
C1_RoundTrip ==
    (/\ Ended("mentpy_to_graphix_pattern")
     /\ pattern # NoValue
     /\ ConcreteAngles(pattern)
     /\ HasFlowOrGflow(pattern))
    => /\ out.kind = "return"
       /\ SameOpenGraph(pattern, out.value)

\* C2: a pattern with a symbolic angle makes graphix_pattern_to_mentpy raise
\* NotImplementedError, before any descriptor is built and before any flow check, and
\* return no circuit.
C2_SymbolicRejected ==
    (Ended("graphix_pattern_to_mentpy") /\ SymbolicAngle(pattern))
    => /\ out.kind = "raise"
       /\ out.err = "NotImplementedError"
       /\ out.built = 0
       /\ out.did = {}
       /\ out.value = NoValue

\* C3: a pattern with concrete angles and neither a flow nor a gflow makes
\* graphix_pattern_to_mentpy raise the no-flow ValueError; no circuit is constructed
\* or returned.
C3_NoFlowRaises ==
    (/\ Ended("graphix_pattern_to_mentpy")
     /\ ConcreteAngles(pattern)
     /\ ~HasFlowOrGflow(pattern))
    => /\ out.kind = "raise"
       /\ out.err = "ValueError"
       /\ out.msg = NoFlowMsg
       /\ "MBQCircuit" \notin out.did
       /\ out.value = NoValue

C3_Witness ==
    /\ Ended("graphix_pattern_to_mentpy")
    /\ ConcreteAngles(pattern)
    /\ ~HasFlowOrGflow(pattern)
    /\ MeasuredNodes(pattern) # {}
    /\ pattern.edges # {}
    /\ out.kind = "raise"
    /\ out.msg = NoFlowMsg

\* C4: the circuit returned by graphix_pattern_to_mentpy has a descriptor for exactly
\* the non-output nodes; the descriptor of v carries the label of v's plane and v's
\* angle, except that angle 0 on plane XY is stored as an undefined angle.
C4_MeasurementMap ==
    (Ended("graphix_pattern_to_mentpy") /\ out.kind = "return")
    => \A v \in Nodes(pattern.n) :
          IF v \in pattern.output_nodes
          THEN out.value.measurements[v] = PyNone
          ELSE /\ out.value.measurements[v] # PyNone
               /\ out.value.measurements[v].plane = PlaneStr(meas_plane_map(pattern)[v])
               /\ IF /\ PyEq(get_angles(pattern)[v], PyFloat(0))
                     /\ meas_plane_map(pattern)[v] = "Plane.XY"
                  THEN out.value.measurements[v].angle = PyNone
                  ELSE PyEq(out.value.measurements[v].angle, get_angles(pattern)[v])

\* C5: in mentpy_to_graphix_pattern a descriptor with a defined numeric angle, integer
\* or float, hands exactly that angle to the open graph; only an undefined angle is
\* replaced by 0.
C5_AnglePassThrough ==
    (Ended("mentpy_to_graphix_pattern") /\ out.kind = "return")
    => \A v \in Nodes(mbqc.n) :
          mbqc.measurements[v] # PyNone
          => IF mbqc.measurements[v].angle = PyNone
             THEN out.value.measurements[v].angle = PyFloat(0)
             ELSE PyEq(out.value.measurements[v].angle, mbqc.measurements[v].angle)

\* the plane the adapter is to give each label
ClaimedPlane ==
    [l \in {"XY", "YZ", "XZ", "X", "Y", "Z"} |->
        IF l \in {"XY"} THEN "Plane.XY"
        ELSE IF l \in {"YZ", "Y"} THEN "Plane.YZ"
        ELSE "Plane.XZ"]

C7_NotTrainableRejected ==
    (/\ Ended("calculate_lie_algebra")
     /\ "MBQCircuit" \in out.did
     /\ graphix_pattern_to_mentpy(pattern).value.trainable_nodes.v = {})
    => /\ out.kind = "raise"
       /\ out.err = "ValueError"
       /\ out.msg = "The pattern is not trainable."
       /\ "mp.utils.calculate_lie_algebra" \notin out.did

\* the label each Pauli letter names
ClaimedPauli ==
    [c \in {"I", "X", "Y", "Z"} |->
        IF c = "I" THEN "Pauli.I" ELSE IF c = "X" THEN "Pauli.X"
        ELSE IF c = "Y" THEN "Pauli.Y" ELSE "Pauli.Z"]

\* C8: the Pauli decoder returns one label list per generator, in generator order, as
\* long as the generator's string, its j-th label named by the j-th character; a
\* character outside I, X, Y, Z makes it raise ValueError and return nothing.
C8_PauliDecoding ==
    (Ended("_mentpy_pauli_to_graphix_pauli") \/ Ended("mentpy_pauli_to_graphix_pauli"))
    => LET gens == generators.v
       IN IF \E i \in DOMAIN gens : \E j \in DOMAIN gens[i] : gens[i][j] \notin DOMAIN ClaimedPauli
          THEN /\ out.kind = "raise"
               /\ out.err = "ValueError"
               /\ out.value = NoValue
          ELSE /\ out.kind = "return"
               /\ Len(out.value.v) = Len(gens)
               /\ \A i \in DOMAIN gens :
                     /\ Len(out.value.v[i]) = Len(gens[i])
                     /\ \A j \in DOMAIN gens[i] : out.value.v[i][j] = ClaimedPauli[gens[i][j]]

C8_Witness ==
    /\ Ended("_mentpy_pauli_to_graphix_pauli")
    /\ generators.v = <<<<"X", "Y">>, <<"Z">>>>
    /\ out.kind = "return"
    /\ out.value.v = <<<<"Pauli.X", "Pauli.Y">>, <<"Pauli.Z">>>>

\* C9: graphix_pattern_to_mentpy raises the no-flow error only when neither check
\* reports a witness; when find_flow or find_gflow reports one, the empty witness of a
\* pattern without measured nodes included, the call returns a circuit.
C9_NoSpuriousNoFlow ==
    (Ended("graphix_pattern_to_mentpy") /\ ConcreteAngles(pattern))
    => /\ (out.kind = "raise" /\ out.msg = NoFlowMsg) => ~HasFlowOrGflow(pattern)
       /\ HasFlowOrGflow(pattern) => out.kind = "return"

\* C10: the legacy converter stores, for every non-output node v, under key v, a
\* descriptor built from v's own plane and angle, and nothing for an output node.
C10_LegacyMeasurementMap ==
    Ended("mentpy_mbqcircuit_from_graphix_pattern")
    => /\ out.kind = "return"
       /\ \A v \in Nodes(pattern.n) :
             IF v \in pattern.output_nodes
             THEN out.value.measurements[v] = PyNone
             ELSE out.value.measurements[v]
                    = Ment(get_angles(pattern)[v], PlaneStr(meas_plane_map(pattern)[v]))
====
